---------------------------- MODULE Spec2Model ----------------------------
(***************************************************************************)
(* PostService of the anonymous board: create, checkPassword, find, update *)
(* and remove over the posts table, with the hashing collaborator.         *)
(*                                                                         *)
(*   Spec      the service called sequentially, one whole handler a step   *)
(*   SpecConc  update and remove split at their await points, interleaved  *)
(*   SpecPage  find and a keyset traversal over large unmodified tables    *)
(***************************************************************************)
EXTENDS Integers, Sequences, FiniteSets, TLC

VARIABLES
    table,   \* the posts table: rows in insertion order
    plain,   \* history: plain[id] is the plaintext last applied to post id
    last,    \* the last completed service call and its outcome
    pc,      \* SpecConc: per request, where the handler is suspended
    local,   \* SpecConc: per request, the entity `post` held in memory
    trav     \* SpecPage: the state of a client paging through the list

vars == <<table, plain, last, pc, local, trav>>

-----------------------------------------------------------------------------
(* Bounds *)

MaxPosts == 1        \* rows the table can hold under Spec
MaxConcPosts == 1    \* rows the table can hold under SpecConc
NumRequests == 2     \* concurrent requests under SpecConc
MaxRows == 62        \* rows of the largest table under SpecPage
PatLen == 3          \* period of the isDeleted pattern under SpecPage
MinCursor == 1       \* cursors range over -MinCursor .. (rows + 1)

(* Program constant *)
DEFAULT_PAGE == 20

Texts == {"a", "b"}
Passwords == {"p", "q"}
Salts == {"x"}

-----------------------------------------------------------------------------
(* Optional values: a DTO field or query parameter that may be undefined *)

None == <<>>
Some(v) == <<v>>

\* JavaScript truthiness of an optional string: undefined and "" are falsy
TruthyStr(o) == o # None /\ o[1] # ""

\* JavaScript truthiness of an optional number: undefined and 0 are falsy
TruthyNum(o) == o # None /\ o[1] # 0

Min(a, b) == IF a < b THEN a ELSE b

-----------------------------------------------------------------------------
(* The hashing collaborator: a salted one-way hash and its comparison *)

Hash(p, salt) == "$" \o salt \o "$" \o p

Compare(p, hashed) == \E s \in Salts : hashed = Hash(p, s)

-----------------------------------------------------------------------------
(* The Post entity and the repository calls the service makes *)

\* The row the data store persists for a new entity: generated id,
\* creation timestamp, isDeleted defaulting to false.
NewPost(t, title, content, hashedPassword) ==
    [id |-> Len(t) + 1,
     title |-> title,
     content |-> content,
     password |-> hashedPassword,
     createdAt |-> Len(t) + 1,
     isDeleted |-> FALSE]

\* Variant of findOne whose where clause omits isDeleted: false
FindOneAnyState(t, id) ==
    LET hit == SelectSeq(t, LAMBDA r : r.id = id)
    IN  IF Len(hit) = 0 THEN None ELSE Some(hit[1])

\* findOne({ where: { id, isDeleted: false } })
FindOne(t, id) ==
    LET hit == SelectSeq(t, LAMBDA r : r.id = id /\ r.isDeleted = FALSE)
    IN  IF Len(hit) = 0 THEN None ELSE Some(hit[1])

\* save(post): a single-row upsert keyed by the primary key
Save(t, post) ==
    IF \E i \in 1..Len(t) : t[i].id = post.id
    THEN [i \in 1..Len(t) |-> IF t[i].id = post.id THEN post ELSE t[i]]
    ELSE Append(t, post)

-----------------------------------------------------------------------------
(* find: the listing query *)

\* ORDER BY p.id DESC: the row with k - 1 larger ids before it comes k-th
\* (id is the primary key, so no two rows share one)
OrderByIdDesc(s) ==
    LET n       == Len(s)
        rank    == [i \in 1..n |-> 1 + Cardinality({j \in 1..n : s[j].id > s[i].id})]
        at      == [k \in 1..n |-> CHOOSE i \in 1..n : rank[i] = k]
    IN  [k \in 1..n |-> s[at[k]]]

Selected(r) ==
    [id |-> r.id, title |-> r.title, content |-> r.content, createdAt |-> r.createdAt]

Project(s) == [i \in 1..Len(s) |-> Selected(s[i])]

\* Variant of find without the isDeleted = false condition
FindWithDeleted(t, lastId) ==
    LET older  == IF TruthyNum(lastId)
                  THEN SelectSeq(t, LAMBDA r : r.id < lastId[1])
                  ELSE t
        sorted == OrderByIdDesc(older)
    IN  Project(SubSeq(sorted, 1, Min(DEFAULT_PAGE, Len(sorted))))

\* Variant of find without limit(DEFAULT_PAGE)
FindNoLimit(t, lastId) ==
    LET live   == SelectSeq(t, LAMBDA r : r.isDeleted = FALSE)
        older  == IF TruthyNum(lastId)
                  THEN SelectSeq(live, LAMBDA r : r.id < lastId[1])
                  ELSE live
    IN  Project(OrderByIdDesc(older))

\* Variant of find whose cursor condition is p.id <= :id
FindInclusive(t, lastId) ==
    LET live   == SelectSeq(t, LAMBDA r : r.isDeleted = FALSE)
        older  == IF TruthyNum(lastId)
                  THEN SelectSeq(live, LAMBDA r : r.id <= lastId[1])
                  ELSE live
        sorted == OrderByIdDesc(older)
    IN  Project(SubSeq(sorted, 1, Min(DEFAULT_PAGE, Len(sorted))))

\* find(lastId): filter, optional cursor, order, limit, projection
Find(t, lastId) ==
    LET live   == SelectSeq(t, LAMBDA r : r.isDeleted = FALSE)
        older  == IF TruthyNum(lastId)
                  THEN SelectSeq(live, LAMBDA r : r.id < lastId[1])
                  ELSE live
        sorted == OrderByIdDesc(older)
    IN  Project(SubSeq(sorted, 1, Min(DEFAULT_PAGE, Len(sorted))))

-----------------------------------------------------------------------------
(* The record of a completed call *)

NoDto == [title |-> None, content |-> None, password |-> None]

NoCall ==
    [op |-> "none", id |-> 0, dto |-> NoDto, lastId |-> None,
     status |-> "ok", match |-> FALSE, posts |-> <<>>, hashed |-> FALSE,
     turn |-> 0]

\* A call of handler op; turn alternates, so that two successive calls with
\* the same arguments and outcome are two records
Call(op) == [NoCall EXCEPT !.op = op, !.turn = 1 - last.turn]

CreateDtos ==
    {[title |-> Some(t), content |-> Some(c), password |-> Some(p)] :
        t \in Texts, c \in Texts, p \in Passwords}

\* An update's title is undefined, empty or any text; its content and its
\* password are undefined, empty or one new value
OptTitle == {None, Some("")} \cup {Some(t) : t \in Texts}
OptContent == {None, Some(""), Some("b")}
OptPassword == {None, Some(""), Some("q")}

UpdateDtos == [title : OptTitle, content : OptContent, password : OptPassword]

CheckDtos == {[title |-> None, content |-> None, password |-> Some(p)] : p \in Passwords}

Ids(t) == 1..(Len(t) + 1)

Cursors(t) == {None} \cup {Some(c) : c \in (0 - MinCursor)..(Len(t) + 1)}

-----------------------------------------------------------------------------
(* The handlers, each run to completion *)

\* Variant of create that saves the dto's password as it came
CreateStoresPlain(createPostDto) ==
    /\ LET post == NewPost(table, createPostDto.title[1],
                        createPostDto.content[1], createPostDto.password[1])
       IN  /\ table' = Save(table, post)
           /\ plain' = Append(plain, createPostDto.password[1])
           /\ last' = [Call("create") EXCEPT !.dto = createPostDto,
                                     !.id = post.id, !.posts = <<post>>]
    /\ UNCHANGED <<pc, local, trav>>

Create(createPostDto) ==
    /\ \E salt \in Salts :
         LET hashedPassword == Hash(createPostDto.password[1], salt)
             post == NewPost(table, createPostDto.title[1],
                             createPostDto.content[1], hashedPassword)
         IN  /\ table' = Save(table, post)
             /\ plain' = Append(plain, createPostDto.password[1])
             /\ last' = [Call("create") EXCEPT !.dto = createPostDto,
                                       !.id = post.id, !.posts = <<post>>,
                                       !.hashed = TRUE]
    /\ UNCHANGED <<pc, local, trav>>

CheckPassword(checkPostPasswordDto, id) ==
    LET post == FindOne(table, id)
    IN  /\ last' = IF post = None
                   THEN \* post is null: reading post.password throws a TypeError
                        [Call("checkPassword") EXCEPT !.id = id,
                                       !.dto = checkPostPasswordDto,
                                       !.status = "TypeError"]
                   ELSE [Call("checkPassword") EXCEPT !.id = id,
                                       !.dto = checkPostPasswordDto,
                                       !.match = Compare(checkPostPasswordDto.password[1],
                                                         post[1].password)]
        /\ UNCHANGED <<table, plain, pc, local, trav>>

FindPosts(lastId) ==
    /\ last' = [Call("find") EXCEPT !.lastId = lastId,
                              !.posts = Find(table, lastId)]
    /\ UNCHANGED <<table, plain, pc, local, trav>>

\* Variant of the assignments that tests each field against undefined only
ApplyUpdateIfDefined(post, updatePostDto, salt) ==
    [post EXCEPT
        !.title    = IF updatePostDto.title # None
                     THEN updatePostDto.title[1] ELSE @,
        !.content  = IF updatePostDto.content # None
                     THEN updatePostDto.content[1] ELSE @,
        !.password = IF updatePostDto.password # None
                     THEN Hash(updatePostDto.password[1], salt) ELSE @]

\* The in-memory assignments of update, between its findOne and its save
ApplyUpdate(post, updatePostDto, salt) ==
    [post EXCEPT
        !.title    = IF TruthyStr(updatePostDto.title)
                     THEN updatePostDto.title[1] ELSE @,
        !.content  = IF TruthyStr(updatePostDto.content)
                     THEN updatePostDto.content[1] ELSE @,
        !.password = IF TruthyStr(updatePostDto.password)
                     THEN Hash(updatePostDto.password[1], salt) ELSE @]

Update(updatePostDto, id) ==
    LET post == FindOne(table, id)
        call == [Call("update") EXCEPT !.id = id, !.dto = updatePostDto]
    IN  /\ IF post = None
           THEN /\ last' = [call EXCEPT !.status = "NotFound"]
                /\ UNCHANGED <<table, plain>>
           ELSE \E salt \in Salts :
                /\ table' = Save(table, ApplyUpdate(post[1], updatePostDto, salt))
                /\ plain' = IF TruthyStr(updatePostDto.password)
                            THEN [plain EXCEPT ![id] = updatePostDto.password[1]]
                            ELSE plain
                /\ last' = [call EXCEPT !.hashed = TruthyStr(updatePostDto.password)]
        /\ UNCHANGED <<pc, local, trav>>

\* The in-memory assignment of remove, between its findOne and its save
MarkDeleted(post) == [post EXCEPT !.isDeleted = TRUE]

\* Variant of remove without the not-found throw
RemoveSilent(id) ==
    LET post == FindOne(table, id)
        call == [Call("remove") EXCEPT !.id = id]
    IN  /\ IF post = None
           THEN UNCHANGED table
           ELSE table' = Save(table, MarkDeleted(post[1]))
        /\ last' = call
        /\ UNCHANGED <<plain, pc, local, trav>>

Remove(id) ==
    LET post == FindOne(table, id)
        call == [Call("remove") EXCEPT !.id = id]
    IN  /\ IF post = None
           THEN /\ last' = [call EXCEPT !.status = "NotFound"]
                /\ UNCHANGED table
           ELSE /\ table' = Save(table, MarkDeleted(post[1]))
                /\ last' = call
        /\ UNCHANGED <<plain, pc, local, trav>>

Init ==
    /\ table = <<>>
    /\ plain = <<>>
    /\ last = NoCall
    /\ pc = [r \in 1..NumRequests |-> "idle"]
    /\ local = [r \in 1..NumRequests |-> None]
    /\ trav = [phase |-> "idle", cursor |-> None, acc |-> <<>>, first |-> <<>>]

Next ==
    \/ \E dto \in CreateDtos : Len(table) < MaxPosts /\ Create(dto)
    \/ \E dto \in CheckDtos, id \in Ids(table) : CheckPassword(dto, id)
    \/ \E c \in Cursors(table) : FindPosts(c)
    \/ \E dto \in UpdateDtos, id \in Ids(table) : Update(dto, id)
    \/ \E id \in Ids(table) : Remove(id)

Spec == Init /\ [][Next]_vars

-----------------------------------------------------------------------------
(* SpecConc: update and remove suspended between their findOne and save.   *)
(* The history variable plain is maintained under Spec only.               *)

Requests == 1..NumRequests

\* update up to its last await: findOne, the not-found throw, the in-memory
\* assignments and the hash, which touch no shared state after the read
UpdateFind(r, updatePostDto, id) ==
    LET post == FindOne(table, id)
    IN  /\ pc[r] = "idle"
        /\ IF post = None
           THEN UNCHANGED <<pc, local>>
           ELSE \E salt \in Salts :
                /\ local' = [local EXCEPT ![r] = Some(ApplyUpdate(post[1], updatePostDto, salt))]
                /\ pc' = [pc EXCEPT ![r] = "update_save"]
        /\ UNCHANGED <<table, plain, last, trav>>

UpdateSave(r) ==
    /\ pc[r] = "update_save"
    /\ table' = Save(table, local[r][1])
    /\ pc' = [pc EXCEPT ![r] = "idle"]
    /\ local' = [local EXCEPT ![r] = None]
    /\ UNCHANGED <<plain, last, trav>>

RemoveFind(r, id) ==
    LET post == FindOne(table, id)
    IN  /\ pc[r] = "idle"
        /\ IF post = None
           THEN UNCHANGED <<pc, local>>
           ELSE /\ local' = [local EXCEPT ![r] = Some(MarkDeleted(post[1]))]
                /\ pc' = [pc EXCEPT ![r] = "remove_save"]
        /\ UNCHANGED <<table, plain, last, trav>>

RemoveSave(r) ==
    /\ pc[r] = "remove_save"
    /\ table' = Save(table, local[r][1])
    /\ pc' = [pc EXCEPT ![r] = "idle"]
    /\ local' = [local EXCEPT ![r] = None]
    /\ UNCHANGED <<plain, last, trav>>

NextConc ==
    \/ \E dto \in CreateDtos : Len(table) < MaxConcPosts /\ Create(dto)
    \/ \E r \in Requests, dto \in UpdateDtos, id \in Ids(table) : UpdateFind(r, dto, id)
    \/ \E r \in Requests : UpdateSave(r)
    \/ \E r \in Requests, id \in Ids(table) : RemoveFind(r, id)
    \/ \E r \in Requests : RemoveSave(r)

SpecConc == Init /\ [][NextConc]_vars

-----------------------------------------------------------------------------
(* SpecPage: find over tables of up to MaxRows rows that nothing modifies, *)
(* and a client that pages through the list by keyset.                     *)

PageRow(i, pat) ==
    [id |-> i, title |-> "a", content |-> "b", password |-> Hash("p", "x"),
     createdAt |-> i, isDeleted |-> pat[((i - 1) % PatLen) + 1]]

InitPage ==
    /\ \E n \in 0..MaxRows, pat \in [1..PatLen -> BOOLEAN] :
         /\ table = [i \in 1..n |-> PageRow(i, pat)]
         /\ plain = [i \in 1..n |-> "p"]
    /\ last = NoCall
    /\ pc = [r \in 1..NumRequests |-> "idle"]
    /\ local = [r \in 1..NumRequests |-> None]
    /\ trav = [phase |-> "idle", cursor |-> None, acc |-> <<>>, first |-> <<>>]

IdsOf(posts) == [i \in 1..Len(posts) |-> posts[i].id]

\* The client's first request: no cursor
TraverseFirst ==
    LET page == Find(table, None)
    IN  /\ trav.phase = "idle"
        /\ last = NoCall
        /\ last' = [Call("find") EXCEPT !.posts = page]
        /\ trav' = [phase  |-> IF Len(page) < DEFAULT_PAGE THEN "done" ELSE "more",
                    cursor |-> IF Len(page) = 0 THEN None ELSE Some(page[Len(page)].id),
                    acc    |-> IdsOf(page),
                    first  |-> IdsOf(page)]
        /\ UNCHANGED <<table, plain, pc, local>>

\* A further request: the cursor is the smallest id of the previous page
TraverseNext ==
    LET page == Find(table, trav.cursor)
    IN  /\ trav.phase = "more"
        /\ last' = [Call("find") EXCEPT !.lastId = trav.cursor, !.posts = page]
        /\ trav' = [trav EXCEPT
                      !.phase  = IF Len(page) < DEFAULT_PAGE THEN "done" ELSE "more",
                      !.cursor = IF Len(page) = 0 THEN @ ELSE Some(page[Len(page)].id),
                      !.acc    = @ \o IdsOf(page)]
        /\ UNCHANGED <<table, plain, pc, local>>

NextPage ==
    \/ \E c \in Cursors(table) : last = NoCall /\ FindPosts(c)
    \/ TraverseFirst
    \/ TraverseNext

SpecPage == InitPage /\ [][NextPage]_vars

-----------------------------------------------------------------------------
(* Properties *)

RowOf(t, id) == CHOOSE r \in {t[j] : j \in 1..Len(t)} : r.id = id

Live(t, id) == \E j \in 1..Len(t) : t[j].id = id /\ ~t[j].isDeleted

Deleted(t, id) == \E j \in 1..Len(t) : t[j].id = id /\ t[j].isDeleted

LiveIds == {table[j].id : j \in {k \in 1..Len(table) : ~table[k].isDeleted}}

Supplied(o) == o # None /\ o # Some("")

\* C1: no post returned by find has isDeleted = true in the table.
C1_FindNeverListsDeleted ==
    last.op = "find" =>
        \A i \in 1..Len(last.posts) : Live(table, last.posts[i].id)

\* C1 witness: find has answered on a table that holds a soft-deleted post.
C1_Witness ==
    /\ last.op = "find"
    /\ \E j \in 1..Len(table) : table[j].isDeleted

\* C2: whenever find is called with a cursor C, whatever integer C is, every
\* returned post has id < C.
C2_CursorBoundsEveryId ==
    (last.op = "find" /\ last.lastId # None) =>
        \A i \in 1..Len(last.posts) : last.posts[i].id < last.lastId[1]

\* C3: checkPassword on an id that is absent or soft-deleted fails with the
\* not-found error, and with no other outcome.
C3_CheckPasswordMissingIsNotFound ==
    (last.op = "checkPassword" /\ ~Live(table, last.id)) =>
        last.status = "NotFound"

\* C4: a successful update overwrites title, content and password exactly
\* for the fields supplied non-empty in the dto, keeps every other field's
\* stored value, and never changes id, createdAt or isDeleted.
C4_UpdateFrame ==
    [][(last'.op = "update" /\ last'.status = "ok") =>
        LET dto == last'.dto
            old == RowOf(table, last'.id)
            new == RowOf(table', last'.id)
        IN  /\ Live(table, last'.id)
            /\ new.title = IF Supplied(dto.title) THEN dto.title[1] ELSE old.title
            /\ new.content = IF Supplied(dto.content) THEN dto.content[1] ELSE old.content
            /\ IF Supplied(dto.password)
               THEN \E s \in Salts : new.password = Hash(dto.password[1], s)
               ELSE new.password = old.password
            /\ new.id = old.id
            /\ new.createdAt = old.createdAt
            /\ new.isDeleted = old.isDeleted]_vars

\* C4 witness: an update succeeded whose title was the empty string, whose
\* content was supplied and whose password was absent.
C4_Witness ==
    /\ last.op = "update"
    /\ last.status = "ok"
    /\ last.dto.title = Some("")
    /\ last.dto.content = Some("b")
    /\ last.dto.password = None

\* C5: find returns at most 20 posts, strictly descending by id.
C5_PageSizeAndOrder ==
    last.op = "find" =>
        /\ Len(last.posts) <= 20
        /\ \A i \in 1..(Len(last.posts) - 1) : last.posts[i].id > last.posts[i + 1].id

\* C5 witness: find returned a full page while more than 20 posts matched.
C5_Witness ==
    /\ last.op = "find"
    /\ last.lastId # None
    /\ Len(last.posts) = 20
    /\ Cardinality({k \in LiveIds : k < last.lastId[1]}) > 20

\* C6: a remove that directly follows a successful remove of the same id
\* reports not-found and leaves the table as it was.
C6_SecondRemoveNotFound ==
    [][(/\ last.op = "remove"
        /\ last.status = "ok"
        /\ last'.op = "remove"
        /\ last'.id = last.id) =>
            (last'.status = "NotFound" /\ table' = table)]_vars

\* C6 witness: a remove has reported not-found for a post that an earlier
\* remove soft-deleted.
C6_Witness ==
    /\ last.op = "remove"
    /\ last.status = "NotFound"
    /\ Deleted(table, last.id)

\* C7: update and remove on an id that is absent or soft-deleted fail with
\* not-found, invoke no hashing and leave the table unchanged.
C7_NotFoundWritesNothing ==
    [][(last'.op \in {"update", "remove"} /\ ~Live(table, last'.id)) =>
        /\ last'.status = "NotFound"
        /\ ~last'.hashed
        /\ table' = table]_vars

\* C7 witness: an update carrying a password was refused for a soft-deleted
\* post.
C7_Witness ==
    /\ last.op = "update"
    /\ last.status = "NotFound"
    /\ Supplied(last.dto.password)
    /\ Deleted(table, last.id)

\* C8: every stored password is a hash of the plaintext last applied to its
\* post and is never a plaintext; checkPassword on a live post returns
\* compare(supplied plaintext, stored hash) and changes no state.
C8_PasswordsHashed ==
    /\ [](\A j \in 1..Len(table) :
            /\ \E s \in Salts : table[j].password = Hash(plain[table[j].id], s)
            /\ table[j].password \notin (Passwords \cup {""}))
    /\ [][(last'.op = "checkPassword" /\ Live(table, last'.id)) =>
            /\ last'.status = "ok"
            /\ last'.match = Compare(last'.dto.password[1],
                                     RowOf(table, last'.id).password)
            /\ table' = table
            /\ plain' = plain]_vars

\* C8 witness: checkPassword matched the password of a live post.
C8_Witness ==
    /\ last.op = "checkPassword"
    /\ last.status = "ok"
    /\ last.match
    /\ Live(table, last.id)
    /\ plain[last.id] = "q"

\* C9: on an unmodified table the first page holds the (up to) 20 largest
\* live ids, and the traversal by smallest-id cursor, stopped at the first
\* page of fewer than 20, lists every live post once, in descending order.
C9_KeysetTraversalComplete ==
    /\ trav.phase # "idle" =>
         /\ Len(trav.first) = Min(20, Cardinality(LiveIds))
         /\ \A i \in 1..Len(trav.first) :
              /\ trav.first[i] \in LiveIds
              /\ \A k \in LiveIds :
                   k > trav.first[i] => \E m \in 1..Len(trav.first) : trav.first[m] = k
    /\ trav.phase = "done" =>
         /\ \A i \in 1..(Len(trav.acc) - 1) : trav.acc[i] > trav.acc[i + 1]
         /\ {trav.acc[i] : i \in 1..Len(trav.acc)} = LiveIds

\* C9 witness: a traversal of more than one page has finished on a table
\* that holds soft-deleted posts.
C9_Witness ==
    /\ trav.phase = "done"
    /\ Len(trav.acc) > 20
    /\ \E j \in 1..Len(table) : table[j].isDeleted

\* C10: once a post is stored with isDeleted = true, no later state stores
\* it with isDeleted = false.
C10_SoftDeletePermanent ==
    [][\A j \in 1..Len(table) :
          table[j].isDeleted => Deleted(table', table[j].id)]_vars

=============================================================================
